---- MODULE Spec2Model ----
(***************************************************************************)
(* Model of the video compressor.                                          *)
(*                                                                         *)
(* Spec: the server side, the multer upload middleware and the             *)
(* POST /api/compress handler of api-routes.js with the CDN uploader of    *)
(* bunny-cdn.js.  One request is followed from its arrival to the last     *)
(* deferred cleanup.  The external parties (axios download, ffprobe, the   *)
(* ffmpeg encoder, the Bunny HTTP API) answer nondeterministically.        *)
(*                                                                         *)
(* SpecUpload: a direct call of the exported uploadCompressedVideo under   *)
(* every configuration of the Bunny variables.                             *)
(*                                                                         *)
(* SpecBrowser: the browser application of js/main.js with its engine      *)
(* (js/ffmpeg-engine.js) and its view (js/ui-controller.js).               *)
(*                                                                         *)
(* SpecRouting: one HTTP request passing the middleware chain of the dev   *)
(* server.                                                                 *)
(*                                                                         *)
(* SpecCommand: FFmpegEngine.buildCommand applied to a settings object.    *)
(***************************************************************************)
EXTENDS Integers, Sequences, FiniteSets, Bags, TLC

(***************************************************************************)
(* JavaScript values.  Body fields are strings; two tokens stand for the   *)
(* values that are not strings.  Numbers are records so that NaN exists.   *)
(***************************************************************************)
Undefined == "<undefined>"
BoolFalse == "<false>"

Num(n) == [nan |-> FALSE, n |-> n]
NaN == [nan |-> TRUE, n |-> 0]

\* JS truthiness of a body field / of a number
Truthy(v) == v \notin {Undefined, BoolFalse, ""}
TruthyNum(x) == ~x.nan /\ x.n # 0

\* a || b on numbers
OrNum(x, d) == IF TruthyNum(x) THEN x ELSE Num(d)
\* a || b on strings
OrStr(v, d) == IF Truthy(v) THEN v ELSE d

\* x < k and x > k: every comparison with NaN is false
LessThan(x, k) == ~x.nan /\ x.n < k
GreaterThan(x, k) == ~x.nan /\ x.n > k

(***************************************************************************)
(* parseInt.  Chars spells the strings that requests of the model carry.   *)
(***************************************************************************)
Chars(s) ==
    CASE s = "-1" -> <<"-", "1">>
      [] s = "0" -> <<"0">>
      [] s = "17" -> <<"1", "7">>
      [] s = "18" -> <<"1", "8">>
      [] s = "28" -> <<"2", "8">>
      [] s = "29" -> <<"2", "9">>
      [] s = "abc" -> <<"a", "b", "c">>
      [] s = "1080" -> <<"1", "0", "8", "0">>
      [] s = "720" -> <<"7", "2", "0">>
      [] s = "480" -> <<"4", "8", "0">>
      [] s = "original" -> <<"o", "r", "i", "g", "i", "n", "a", "l">>
      [] s = Undefined -> <<"u", "n", "d", "e", "f", "i", "n", "e", "d">>
      [] s = BoolFalse -> <<"f", "a", "l", "s", "e">>
      [] s = "video/" -> <<"v", "i", "d", "e", "o", "/">>
      [] s = "video/mp4" -> <<"v", "i", "d", "e", "o", "/", "m", "p", "4">>
      [] s = "image/png" -> <<"i", "m", "a", "g", "e", "/", "p", "n", "g">>
      [] s = "videotape" -> <<"v", "i", "d", "e", "o", "t", "a", "p", "e">>
      [] s = "zoneX" -> <<"z", "o", "n", "e", "X">>
      [] s = "pw" -> <<"p", "w">>
      [] s = "key" -> <<"k", "e", "y">>
      [] s = "12345" -> <<"1", "2", "3", "4", "5">>
      [] s = "wbt-public-videos" -> <<"w", "b", "t", "-", "p", "u", "b", "l", "i", "c", "-", "v", "i", "d", "e", "o", "s">>
      [] s = "my-wbt-public-videos" -> <<"m", "y", "-", "w", "b", "t", "-", "p", "u", "b", "l", "i", "c", "-", "v", "i", "d", "e", "o", "s">>
      [] s = "my-zone" -> <<"m", "y", "-", "z", "o", "n", "e">>
      [] s = "https://cdn.example.com/" -> <<"h", "t", "t", "p", "s", ":", "/", "/", "c", "d", "n", ".", "e", "x", "a", "m", "p", "l", "e", ".", "c", "o", "m", "/">>
      [] s = "wbt-public.b-cdn.net" -> <<"w", "b", "t", "-", "p", "u", "b", "l", "i", "c", ".", "b", "-", "c", "d", "n", ".", "n", "e", "t">>
      [] s = "http://my-zone.b-cdn.net/videos" -> <<"h", "t", "t", "p", ":", "/", "/", "m", "y", "-", "z", "o", "n", "e", ".", "b", "-", "c", "d", "n", ".", "n", "e", "t", "/", "v", "i", "d", "e", "o", "s">>
      [] s = "https://" -> <<"h", "t", "t", "p", "s", ":", "/", "/">>
      [] s = "http://" -> <<"h", "t", "t", "p", ":", "/", "/">>
      [] s = ".b-cdn.net" -> <<".", "b", "-", "c", "d", "n", ".", "n", "e", "t">>
      [] s = "wbt-public-videos.b-cdn.net" -> <<"w", "b", "t", "-", "p", "u", "b", "l", "i", "c", "-", "v", "i", "d", "e", "o", "s", ".", "b", "-", "c", "d", "n", ".", "n", "e", "t">>
      [] s = "/play_720p.mp4" -> <<"/", "p", "l", "a", "y", "_", "7", "2", "0", "p", ".", "m", "p", "4">>
      [] s = "https://vz-" -> <<"h", "t", "t", "p", "s", ":", "/", "/", "v", "z", "-">>
      [] s = "https://example.com/v/big.mov?x=1" -> <<"h", "t", "t", "p", "s", ":", "/", "/", "e", "x", "a", "m", "p", "l", "e", ".", "c", "o", "m", "/", "v", "/", "b", "i", "g", ".", "m", "o", "v", "?", "x", "=", "1">>
      [] s = "not a url" -> <<"n", "o", "t", " ", "a", " ", "u", "r", "l">>
      [] s = " https://example.com/v/big.mov?x=1 " -> <<" ", "h", "t", "t", "p", "s", ":", "/", "/", "e", "x", "a", "m", "p", "l", "e", ".", "c", "o", "m", "/", "v", "/", "b", "i", "g", ".", "m", "o", "v", "?", "x", "=", "1", " ">>
      [] OTHER -> <<>>

Digits == <<"0", "1", "2", "3", "4", "5", "6", "7", "8", "9">>
IsDigit(c) == \E i \in 1..10 : Digits[i] = c
DigitVal(c) == (CHOOSE i \in 1..10 : Digits[i] = c) - 1

RECURSIVE ParseDigits(_, _, _)
ParseDigits(cs, i, acc) ==
    IF i > Len(cs) \/ ~IsDigit(cs[i]) THEN acc
    ELSE ParseDigits(cs, i + 1, acc * 10 + DigitVal(cs[i]))

\* parseInt on the characters of its argument
parseIntChars(cs) ==
    LET signed == Len(cs) > 0 /\ cs[1] \in {"-", "+"}
        start == IF signed THEN 2 ELSE 1
    IN  IF start > Len(cs) \/ ~IsDigit(cs[start]) THEN NaN
        ELSE IF signed /\ cs[1] = "-" THEN Num(0 - ParseDigits(cs, start, 0))
        ELSE Num(ParseDigits(cs, start, 0))

parseInt(v) == parseIntChars(Chars(v))

\* Number.prototype.toString and `${number}`: the decimal characters
RECURSIVE DigitChars(_)
DigitChars(n) ==
    IF n < 10 THEN <<Digits[n + 1]>>
    ELSE Append(DigitChars(n \div 10), Digits[(n % 10) + 1])

NumChars(x) ==
    IF x.nan THEN <<"N", "a", "N">>
    ELSE IF x.n < 0 THEN <<"-">> \o DigitChars(0 - x.n)
    ELSE DigitChars(x.n)

RECURSIVE Join(_)
Join(cs) == IF cs = <<>> THEN "" ELSE cs[1] \o Join(Tail(cs))

toString(x) == Join(NumChars(x))

\* String.prototype.startsWith and endsWith on characters
StartsWith(cs, prefix) ==
    /\ Len(cs) >= Len(prefix)
    /\ SubSeq(cs, 1, Len(prefix)) = prefix

EndsWith(cs, suffix) ==
    /\ Len(cs) >= Len(suffix)
    /\ SubSeq(cs, Len(cs) - Len(suffix) + 1, Len(cs)) = suffix

\* String.prototype.indexOf, counted from 1; 0 when pattern does not occur
IndexOf(cs, pattern) ==
    LET hits == {i \in 1..Len(cs) : StartsWith(SubSeq(cs, i, Len(cs)), pattern)}
    IN  IF hits = {} THEN 0 ELSE CHOOSE i \in hits : \A j \in hits : i <= j

\* String.prototype.replace with a string pattern: the first occurrence
Replace(cs, pattern, by) ==
    LET i == IndexOf(cs, pattern)
    IN  IF i = 0 THEN cs
        ELSE SubSeq(cs, 1, i - 1) \o by \o SubSeq(cs, i + Len(pattern), Len(cs))

\* String.prototype.trim
RECURSIVE Trim(_)
Trim(cs) ==
    IF cs # <<>> /\ cs[1] = " " THEN Trim(Tail(cs))
    ELSE IF cs # <<>> /\ cs[Len(cs)] = " " THEN Trim(SubSeq(cs, 1, Len(cs) - 1))
    ELSE cs

(***************************************************************************)
(* Program constants and the bound of the model.                           *)
(***************************************************************************)
maxDuration == 90
DefaultQuality == 23
MinQuality == 18
MaxQuality == 28

\* ffprobe reports a whole number of seconds up to this, or no number
MaxProbedDuration == 91
ProbedDurations == (maxDuration - 1)..MaxProbedDuration

allowedMimes == {"video/mp4", "video/quicktime", "video/x-msvideo", "video/mpeg"}
Presets == {"fast", "medium", "slow"}

(***************************************************************************)
(* The requests of the model.  file is the mimetype of the multipart part  *)
(* named video (Undefined: no such part); the other fields are req.body,   *)
(* req.query.format and the Accept header.                                 *)
(***************************************************************************)
Urls == {Undefined, "http://host/v.mp4"}
Mimes == {Undefined, "video/mp4", "text/plain"}
Qualities == {Undefined, "-1", "0", "17", "18", "28", "29", "abc"}
Resolutions == {Undefined, "original", "1080", "720", "480"}
PresetInputs == {Undefined, "fast", "ultrafast"}
UploadToCdnInputs == {Undefined, "false", BoolFalse}
Formats == {Undefined, "json", "file"}
QueryFormats == {Undefined, "json"}
Accepts == {"", "application/json"}

Requests ==
    [url : Urls, file : Mimes, quality : Qualities, resolution : Resolutions,
     preset : PresetInputs, uploadToCdn : UploadToCdnInputs,
     format : Formats, queryFormat : QueryFormats, accept : Accepts]

NoRequest ==
    [url |-> Undefined, file |-> Undefined, quality |-> Undefined,
     resolution |-> Undefined, preset |-> Undefined, uploadToCdn |-> Undefined,
     format |-> Undefined, queryFormat |-> Undefined, accept |-> ""]

(***************************************************************************)
(* process.env as bunny-cdn.js reads it: which variables are set.          *)
(***************************************************************************)
Env(zone, password, key, library, pullName, pullUrl) ==
    [BUNNY_STORAGE_ZONE_NAME |-> zone, BUNNY_STORAGE_ZONE_PASSWORD |-> password,
     BUNNY_STREAM_API_KEY |-> key, BUNNY_STREAM_LIBRARY_ID |-> library,
     BUNNY_PULL_ZONE_NAME |-> pullName, BUNNY_PULL_ZONE_URL |-> pullUrl]

\* every way the variables can be set
AllEnvironments ==
    [BUNNY_STORAGE_ZONE_NAME : {Undefined, "zoneX", "wbt-public-videos"},
     BUNNY_STORAGE_ZONE_PASSWORD : {Undefined, "pw"},
     BUNNY_STREAM_API_KEY : {Undefined, "key"},
     BUNNY_STREAM_LIBRARY_ID : {Undefined, "12345"},
     BUNNY_PULL_ZONE_NAME : {Undefined, "wbt-public-videos",
                             "my-wbt-public-videos", "my-zone"},
     BUNNY_PULL_ZONE_URL : {Undefined, "https://cdn.example.com/",
                            "wbt-public.b-cdn.net",
                            "http://my-zone.b-cdn.net/videos"}]

\* the environments the compress handler is followed under
Environments ==
    { Env(Undefined, Undefined, Undefined, Undefined, Undefined, Undefined),
      Env("zoneX", "pw", Undefined, Undefined, "wbt-public-videos", Undefined),
      Env("zoneX", Undefined, "key", "12345", Undefined, Undefined),
      Env("zoneX", "pw", "key", "12345", Undefined, Undefined),
      Env("wbt-public-videos", "pw", Undefined, Undefined, Undefined, Undefined),
      Env("zoneX", "pw", Undefined, Undefined, Undefined, "https://cdn.example.com/") }

(***************************************************************************)
(* Responses.                                                              *)
(***************************************************************************)
NoBunnyCdn ==
    [present |-> FALSE, cdnUrl |-> Undefined, storagePath |-> Undefined,
     videoId |-> Undefined, method |-> Undefined]

\* nothing written to the socket yet
NoResponse ==
    [status |-> 0, kind |-> "none", success |-> FALSE, error |-> Undefined,
     bunnyCdn |-> NoBunnyCdn]

\* res.status(code).json({success: false, error: message})
ErrorJson(code, message) ==
    [status |-> code, kind |-> "json", success |-> FALSE, error |-> message,
     bunnyCdn |-> NoBunnyCdn]

\* res.json(responseData)
SuccessJson(bunnyCdn) ==
    [status |-> 200, kind |-> "json", success |-> TRUE, error |-> Undefined,
     bunnyCdn |-> bunnyCdn]

\* res.download(outputPath, fileName, cb)
FileDownload ==
    [status |-> 200, kind |-> "file", success |-> TRUE, error |-> Undefined,
     bunnyCdn |-> NoBunnyCdn]

\* the framework's own answer to an error no handler took: 500, not JSON
DefaultError ==
    [status |-> 500, kind |-> "html", success |-> FALSE, error |-> Undefined,
     bunnyCdn |-> NoBunnyCdn]

(***************************************************************************)
(* State.                                                                  *)
(***************************************************************************)
VARIABLES
    pc,          \* where the handler of the request stands
    env,         \* process.env
    req,         \* the request being served
    inputPath,   \* the handler's inputPath: Undefined, "upload" or "download"
    duration,    \* what getVideoDuration resolved with, as a number
    probed,      \* "no", "resolved" or "rejected": outcome of getVideoDuration
    encoder,     \* the ffmpeg command and its progress
    cdn,         \* the call of uploadCompressedVideo and its outcome
    res,         \* the response sent
    files        \* the temp files present in the uploads directory

\* the browser application, the routed request and the command builder
VARIABLES
    app,         \* VideoCompressorApp: currentFile, isProcessing
    engine,      \* FFmpegEngine: loaded, cancelled, the callbacks
    ui,          \* UIController: what the page shows
    runs,        \* the startCompression calls in flight
    pending,     \* handleFileSelect calls waiting for the duration
    lastPick,    \* the file handed to handleFileSelect in the step just taken
    http,        \* a request on its way through the dev server's middleware
    built        \* a settings object and the command built from it

serverVars == <<pc, env, req, inputPath, duration, probed, encoder, cdn, res, files>>
browserVars == <<app, engine, ui, runs, pending, lastPick>>

vars == <<pc, env, req, inputPath, duration, probed, encoder, cdn, res, files,
          app, engine, ui, runs, pending, lastPick, http, built>>

OutputFile == "output"

NoEncoder ==
    [state |-> "idle", crf |-> NaN, preset |-> Undefined,
     resolution |-> Undefined, scaled |-> FALSE, height |-> NaN]

NoResult ==
    [cdnUrl |-> Undefined, videoUrl |-> Undefined, videoId |-> Undefined,
     method |-> Undefined]

NoCdn == [state |-> "notcalled", service |-> "none", result |-> NoResult]

(***************************************************************************)
(* The initial values of the browser application (the constructors of      *)
(* main.js, ffmpeg-engine.js and ui-controller.js, the page showing what   *)
(* resetToUpload shows), of the routed request and of the command builder. *)
(***************************************************************************)
\* currentFile = null
NoFile ==
    [present |-> FALSE, size |-> 0, type |-> "", readable |-> FALSE,
     duration |-> NaN, url |-> Undefined]

InitialApp == [currentFile |-> NoFile, isProcessing |-> FALSE]

InitialEngine == [loaded |-> FALSE, cancelled |-> FALSE, callbacks |-> FALSE]

InitialUi ==
    [section |-> "upload", uploadZone |-> "flex", urlInputZone |-> "none",
     settingsPanel |-> "none",
     progressFill |-> <<"0", "%">>, progressText |-> <<"0", "%">>,
     statusMessage |-> "Initializing...", errorMessage |-> "",
     currentFile |-> NoFile, compressedBlob |-> FALSE]

NoSettings ==
    [crf |-> NaN, preset |-> Undefined, resolution |-> Undefined,
     audioBitrate |-> Undefined]

NoHttp ==
    [at |-> 0, method |-> "GET", path |-> "/", onDisk |-> FALSE,
     body |-> "none", headers |-> {}, responder |-> "none", status |-> 0]

NoBuilt ==
    [inputName |-> "input.mp4", outputName |-> "output.mp4",
     settings |-> NoSettings, command |-> <<>>, done |-> FALSE]

BrowserQuiet ==
    /\ app = InitialApp
    /\ engine = InitialEngine
    /\ ui = InitialUi
    /\ runs = EmptyBag
    /\ pending = EmptyBag
    /\ lastPick = NoFile

ServerQuiet ==
    /\ pc = "idle"
    /\ req = NoRequest
    /\ inputPath = Undefined
    /\ duration = NaN
    /\ probed = "no"
    /\ encoder = NoEncoder
    /\ cdn = NoCdn
    /\ res = NoResponse
    /\ files = {}

Init ==
    /\ pc = "idle"
    /\ env \in Environments
    /\ req = NoRequest
    /\ inputPath = Undefined
    /\ duration = NaN
    /\ probed = "no"
    /\ encoder = NoEncoder
    /\ cdn = NoCdn
    /\ res = NoResponse
    /\ files = {}
    /\ BrowserQuiet
    /\ http = NoHttp
    /\ built = NoBuilt

(***************************************************************************)
(* Helpers of api-routes.js.                                               *)
(***************************************************************************)
\* cleanup(...files): unlink each of the files that exists
cleanup(present, paths) == present \ paths

\* multer's fileFilter: the part is stored only if its mimetype is allowed
fileFilter(mimetype) == mimetype \in allowedMimes

\* a variant that treats a request without input as an upload
InputSourceNoReject(r) ==
    IF Truthy(r.url) THEN "url" ELSE "file"

\* the branch the handler takes: if (req.body.url) / else if (req.file) / else
InputSource(r) ==
    IF Truthy(r.url) THEN "url"
    ELSE IF r.file # Undefined THEN "file"
    ELSE "none"

\* duration > maxDuration
DurationTooLong(d) == GreaterThan(d, maxDuration)

\* parseInt(req.body.quality) || 23, and the two other settings
qualityOf(r) == OrNum(parseInt(r.quality), DefaultQuality)
resolutionOf(r) == OrStr(r.resolution, "original")
presetOf(r) == OrStr(r.preset, "medium")

\* the two checks that throw
QualityRejected(q) == LessThan(q, MinQuality) \/ GreaterThan(q, MaxQuality)
PresetRejected(p) == p \notin Presets

\* the command handed to ffmpeg by .save(outputPath)
BuildCommand(r) ==
    LET resolution == resolutionOf(r)
        scaled == resolution # "original"
    IN  [state |-> "running", crf |-> qualityOf(r), preset |-> presetOf(r),
         resolution |-> resolution, scaled |-> scaled,
         height |-> IF scaled THEN parseInt(resolution) ELSE NaN]

\* a variant that knows the string 'false' only
uploadToCdnOfStringOnly(r) == r.uploadToCdn # "false"

\* req.body.uploadToCdn !== 'false' && req.body.uploadToCdn !== false
uploadToCdnOf(r) == r.uploadToCdn # "false" /\ r.uploadToCdn # BoolFalse

\* acceptHeader.includes('application/json'), on the headers of the model
AcceptsJson(accept) == accept \in {"application/json"}

\* wantsJson || bunnyCdnResult
wantsJson(r, hasResult) ==
    AcceptsJson(r.accept) \/ r.queryFormat = "json" \/ hasResult

(***************************************************************************)
(* bunny-cdn.js.                                                           *)
(***************************************************************************)
RemotePath == <<"<remotePath>">>
Guid == <<"<guid>">>

hasStorage(e) ==
    Truthy(e.BUNNY_STORAGE_ZONE_NAME) /\ Truthy(e.BUNNY_STORAGE_ZONE_PASSWORD)
hasStream(e) ==
    Truthy(e.BUNNY_STREAM_API_KEY) /\ Truthy(e.BUNNY_STREAM_LIBRARY_ID)

\* baseUrl of uploadToBunnyStorage: pullZoneUrl trimmed, without a trailing
\* slash and without its protocol
BaseUrl(pullZoneUrl) ==
    LET trimmed == Trim(Chars(pullZoneUrl))
        noSlash == IF EndsWith(trimmed, <<"/">>)
                   THEN SubSeq(trimmed, 1, Len(trimmed) - 1) ELSE trimmed
    IN  IF StartsWith(noSlash, Chars("https://"))
        THEN SubSeq(noSlash, Len(Chars("https://")) + 1, Len(noSlash))
        ELSE IF StartsWith(noSlash, Chars("http://"))
        THEN SubSeq(noSlash, Len(Chars("http://")) + 1, Len(noSlash))
        ELSE noSlash

\* baseUrl.match(/^([^.]+)\.b-cdn\.net/): the characters of the first group,
\* or the empty sequence when there is no match
DomainMatch(baseUrl) ==
    LET dot == IndexOf(baseUrl, <<".">>)
    IN  IF dot > 1 /\ StartsWith(SubSeq(baseUrl, dot, Len(baseUrl)), Chars(".b-cdn.net"))
        THEN SubSeq(baseUrl, 1, dot - 1)
        ELSE <<>>

\* the characters of cdnUrl in uploadToBunnyStorage
StorageCdnUrl(e) ==
    IF Truthy(e.BUNNY_PULL_ZONE_NAME)
    THEN Chars("https://") \o Chars(e.BUNNY_PULL_ZONE_NAME) \o Chars(".b-cdn.net")
         \o <<"/">> \o RemotePath
    ELSE IF Truthy(e.BUNNY_PULL_ZONE_URL)
    THEN LET baseUrl == BaseUrl(e.BUNNY_PULL_ZONE_URL)
         IN  IF DomainMatch(baseUrl) # <<>>
             THEN Chars("https://") \o DomainMatch(baseUrl) \o Chars(".b-cdn.net")
                  \o <<"/">> \o RemotePath
             ELSE Chars("https://") \o baseUrl \o <<"/">> \o RemotePath
    ELSE Chars("https://") \o Chars(e.BUNNY_STORAGE_ZONE_NAME) \o Chars(".b-cdn.net")
         \o <<"/">> \o RemotePath

\* the characters of videoUrl in uploadToBunnyStream
StreamVideoUrl(e) ==
    Chars("https://vz-") \o Chars(e.BUNNY_STREAM_LIBRARY_ID) \o Chars(".b-cdn.net")
    \o <<"/">> \o Guid \o Chars("/play_720p.mp4")

\* the value uploadToBunnyStorage returns when its PUT succeeds
uploadToBunnyStorage(e) ==
    [cdnUrl |-> Join(StorageCdnUrl(e)),
     videoUrl |-> Undefined, videoId |-> Undefined, method |-> "storage"]

\* the value uploadToBunnyStream returns when its POST and PUT succeed
uploadToBunnyStream(e) ==
    [cdnUrl |-> Undefined, videoUrl |-> Join(StreamVideoUrl(e)),
     videoId |-> "<guid>", method |-> "stream"]

\* a variant that prefers Stream over Storage
uploadCompressedVideoStreamFirst(e, networkOk) ==
    IF ~hasStorage(e) /\ ~hasStream(e)
    THEN [state |-> "rejected", service |-> "none", result |-> NoResult]
    ELSE IF hasStream(e)
    THEN [state |-> IF networkOk THEN "resolved" ELSE "rejected",
          service |-> "stream",
          result |-> IF networkOk THEN uploadToBunnyStream(e) ELSE NoResult]
    ELSE [state |-> IF networkOk THEN "resolved" ELSE "rejected",
          service |-> "storage",
          result |-> IF networkOk THEN uploadToBunnyStorage(e) ELSE NoResult]

\* uploadCompressedVideo: the service contacted and, when the network
\* answers (networkOk), the value returned; otherwise it throws
uploadCompressedVideo(e, networkOk) ==
    IF ~hasStorage(e) /\ ~hasStream(e)
    THEN [state |-> "rejected", service |-> "none", result |-> NoResult]
    ELSE IF hasStorage(e)
    THEN [state |-> IF networkOk THEN "resolved" ELSE "rejected",
          service |-> "storage",
          result |-> IF networkOk THEN uploadToBunnyStorage(e) ELSE NoResult]
    ELSE [state |-> IF networkOk THEN "resolved" ELSE "rejected",
          service |-> "stream",
          result |-> IF networkOk THEN uploadToBunnyStream(e) ELSE NoResult]

(***************************************************************************)
(* The end of the 'end' listener: the response data and the answer.        *)
(***************************************************************************)
\* cdnUrl.replace('wbt-public-videos.b-cdn.net', 'wbt-public.b-cdn.net')
\* the URLs the uploaders return, spelled
Spellings ==
    {StorageCdnUrl(e) : e \in {a \in AllEnvironments : hasStorage(a)}}
    \cup {StreamVideoUrl(e) : e \in {a \in AllEnvironments : hasStream(a)}}

Spelled == [cs \in Spellings |-> Join(cs)]

Spell(url) == CHOOSE cs \in Spellings : Spelled[cs] = url

ReplaceDomain(url) ==
    Join(Replace(Spell(url), Chars("wbt-public-videos.b-cdn.net"),
                 Chars("wbt-public.b-cdn.net")))

\* a variant that reads only the cdnUrl field of the result
bunnyCdnOfCdnUrlOnly(c) ==
    IF c.state # "resolved" THEN NoBunnyCdn
    ELSE [present |-> TRUE, cdnUrl |-> c.result.cdnUrl,
          storagePath |-> IF c.result.cdnUrl = Undefined THEN Undefined
                          ELSE ReplaceDomain(c.result.cdnUrl),
          videoId |-> c.result.videoId, method |-> c.result.method]

\* responseData.bunnyCdn, set only if (bunnyCdnResult)
bunnyCdnOf(c) ==
    IF c.state # "resolved" THEN NoBunnyCdn
    ELSE LET cdnUrl == OrStr(c.result.cdnUrl, c.result.videoUrl)
         IN  [present |-> TRUE, cdnUrl |-> cdnUrl,
              storagePath |-> ReplaceDomain(cdnUrl),
              videoId |-> c.result.videoId, method |-> c.result.method]

\* res.json(responseData) with the deferred cleanup, or res.download
Respond(c) ==
    IF wantsJson(req, c.state = "resolved") \/ c.state = "resolved"
    THEN /\ res' = SuccessJson(bunnyCdnOf(c))
         /\ pc' = "timer"
    ELSE /\ res' = FileDownload
         /\ pc' = "sending"

\* the catch block of the handler: evaluating its first statement,
\* cleanup(inputPath, outputPath), throws a ReferenceError because
\* outputPath is a const of the try block; nothing after it runs and the
\* async handler rejects.  What the client then sees depends on the
\* framework: no answer at all, or the framework's own 500.
Catch ==
    /\ res' \in {NoResponse, DefaultError}
    /\ pc' = "done"

(***************************************************************************)
(* The request arrives: upload.single('video'), then the handler up to its *)
(* first await.                                                            *)
(***************************************************************************)
Receive ==
    /\ pc = "idle"
    /\ \E r \in Requests :
        /\ req' = r
        /\ IF r.file # Undefined /\ ~fileFilter(r.file)
           THEN \* multer passes the filter's error on; the handler never runs
                /\ res' = DefaultError
                /\ pc' = "done"
                /\ UNCHANGED <<inputPath, files>>
           ELSE /\ files' = IF r.file # Undefined THEN files \cup {"upload"} ELSE files
                /\ IF InputSource(r) = "url"
                   THEN /\ pc' = "downloading"
                        /\ UNCHANGED <<inputPath, res>>
                   ELSE IF InputSource(r) = "file"
                   THEN /\ inputPath' = "upload"
                        /\ pc' = "probing"
                        /\ UNCHANGED res
                   ELSE /\ res' = ErrorJson(400, "No video file or URL provided")
                        /\ pc' = "done"
                        /\ UNCHANGED inputPath
    /\ UNCHANGED <<env, duration, probed, encoder, cdn>>
    /\ UNCHANGED <<browserVars, http, built>>

\* downloadVideoFromURL: the GET of axios resolves and the write stream
\* creates the file; the handler still waits for the download
DownloadOpened ==
    /\ pc = "downloading"
    /\ "download" \notin files
    /\ files' = files \cup {"download"}
    /\ UNCHANGED <<env, req, inputPath, duration, probed, encoder, cdn, res, pc>>
    /\ UNCHANGED <<browserVars, http, built>>

\* the write stream emits 'finish': downloadVideoFromURL resolves and the
\* handler goes on to getVideoDuration
DownloadResolved ==
    /\ pc = "downloading"
    /\ "download" \in files
    /\ inputPath' = "download"
    /\ pc' = "probing"
    /\ UNCHANGED <<env, req, duration, probed, encoder, cdn, res, files>>
    /\ UNCHANGED <<browserVars, http, built>>

\* downloadVideoFromURL rejects: the GET of axios before the file exists,
\* or the write stream's 'error' with the file on disk; the handler's catch
\* block runs
DownloadRejected ==
    /\ pc = "downloading"
    /\ Catch
    /\ UNCHANGED <<env, req, inputPath, duration, probed, encoder, cdn, files>>
    /\ UNCHANGED <<browserVars, http, built>>

\* getVideoDuration rejects
ProbeRejected ==
    /\ pc = "probing"
    /\ probed' = "rejected"
    /\ files' = cleanup(files, {inputPath})
    /\ res' = ErrorJson(400, "Could not read video duration. Please ensure the file is a valid video.")
    /\ pc' = "done"
    /\ UNCHANGED <<env, req, inputPath, duration, encoder, cdn>>
    /\ UNCHANGED <<browserVars, http, built>>

\* getVideoDuration resolves with metadata.format.duration: a number, or a
\* value that is no number ('N/A', undefined), which > sees as NaN.  The
\* durations followed are whole seconds, which Math.round leaves as they
\* are in the message of a duration too long.  The
\* handler runs on to .save(outputPath) or to a return or a throw.
ProbeResolved ==
    /\ pc = "probing"
    /\ probed' = "resolved"
    /\ \E d \in {Num(n) : n \in ProbedDurations} \cup {NaN} :
        /\ duration' = d
        /\ IF DurationTooLong(d)
           THEN /\ files' = cleanup(files, {inputPath})
                /\ res' = ErrorJson(400,
                       "Video duration is too long. Maximum duration is 1.5 minutes ("
                       \o toString(d) \o "s provided).")
                /\ pc' = "done"
                /\ UNCHANGED encoder
           ELSE IF QualityRejected(qualityOf(req)) \/ PresetRejected(presetOf(req))
           THEN /\ Catch
                /\ UNCHANGED <<files, encoder>>
           ELSE /\ encoder' = BuildCommand(req)
                /\ pc' = "encoding"
                /\ UNCHANGED <<files, res>>
    /\ UNCHANGED <<env, req, inputPath, cdn>>
    /\ UNCHANGED <<browserVars, http, built>>

\* the command emits 'error' with an Error of fluent-ffmpeg
EncoderError ==
    /\ pc = "encoding"
    /\ encoder' = [encoder EXCEPT !.state = "failed"]
    /\ files' = cleanup(files, {inputPath, OutputFile})
    /\ \E message \in {"ffmpeg exited with code 1",
                        "ffmpeg was killed with signal SIGKILL"} :
          res' = ErrorJson(500, "Compression failed: " \o message)
    /\ pc' = "done"
    /\ UNCHANGED <<env, req, inputPath, duration, probed, cdn>>
    /\ UNCHANGED <<browserVars, http, built>>

\* a variant that removes the temp files as soon as the encoder ends
EncoderEndEarlyCleanup ==
    /\ pc = "encoding"
    /\ encoder' = [encoder EXCEPT !.state = "ended"]
    /\ files' = cleanup(files \cup {OutputFile}, {inputPath, OutputFile})
    /\ IF uploadToCdnOf(req)
       THEN /\ cdn' = [cdn EXCEPT !.state = "running"]
            /\ pc' = "uploading"
            /\ UNCHANGED res
       ELSE /\ Respond(cdn)
            /\ UNCHANGED cdn
    /\ UNCHANGED <<env, req, inputPath, duration, probed>>
    /\ UNCHANGED <<browserVars, http, built>>

\* the command emits 'end': the output exists; the listener runs to the
\* await of uploadCompressedVideo or, when no upload is wanted, to the answer
EncoderEnd ==
    /\ pc = "encoding"
    /\ encoder' = [encoder EXCEPT !.state = "ended"]
    /\ files' = files \cup {OutputFile}
    /\ IF uploadToCdnOf(req)
       THEN /\ cdn' = [cdn EXCEPT !.state = "running"]
            /\ pc' = "uploading"
            /\ UNCHANGED res
       ELSE /\ Respond(cdn)
            /\ UNCHANGED cdn
    /\ UNCHANGED <<env, req, inputPath, duration, probed>>
    /\ UNCHANGED <<browserVars, http, built>>

\* a variant without the try/catch around the upload: a throw of
\* uploadCompressedVideo leaves the listener
UploadSettledNoTry ==
    /\ pc = "uploading"
    /\ \E networkOk \in BOOLEAN :
        /\ cdn' = uploadCompressedVideo(env, networkOk)
        /\ IF cdn'.state = "rejected"
           THEN /\ res' \in {NoResponse, DefaultError}
                /\ pc' = "done"
           ELSE Respond(cdn')
    /\ UNCHANGED <<env, req, inputPath, duration, probed, encoder, files>>
    /\ UNCHANGED <<browserVars, http, built>>

\* uploadCompressedVideo settles; the listener runs on to the answer
UploadSettled ==
    /\ pc = "uploading"
    /\ \E networkOk \in BOOLEAN :
        /\ cdn' = uploadCompressedVideo(env, networkOk)
        /\ Respond(cdn')
    /\ UNCHANGED <<env, req, inputPath, duration, probed, encoder, files>>
    /\ UNCHANGED <<browserVars, http, built>>

\* setTimeout(() => cleanup(inputPath, outputPath), 1000) fires
TimerFires ==
    /\ pc = "timer"
    /\ files' = cleanup(files, {inputPath, OutputFile})
    /\ pc' = "done"
    /\ UNCHANGED <<env, req, inputPath, duration, probed, encoder, cdn, res>>
    /\ UNCHANGED <<browserVars, http, built>>

\* the callback of res.download runs, with or without an error
DownloadCallback ==
    /\ pc = "sending"
    /\ files' = cleanup(files, {inputPath, OutputFile})
    /\ pc' = "done"
    /\ UNCHANGED <<env, req, inputPath, duration, probed, encoder, cdn, res>>
    /\ UNCHANGED <<browserVars, http, built>>

Next ==
    \/ Receive
    \/ DownloadOpened
    \/ DownloadResolved
    \/ DownloadRejected
    \/ ProbeRejected
    \/ ProbeResolved
    \/ EncoderError
    \/ EncoderEnd
    \/ UploadSettled
    \/ TimerFires
    \/ DownloadCallback

Spec == Init /\ [][Next]_vars

(***************************************************************************)
(* FFmpegEngine.buildCommand (js/ffmpeg-engine.js), applied to a settings  *)
(* object.                                                                 *)
(***************************************************************************)
\* a variant that scales whatever the resolution
buildCommandAlwaysScale(inputName, outputName, settings) ==
    <<"-i", inputName, "-c:v", "libx264", "-crf", toString(settings.crf),
      "-preset", settings.preset, "-movflags", "+faststart">>
    \o <<"-vf", "scale=-2:" \o toString(parseInt(settings.resolution))>>
    \o <<"-c:a", "aac", "-b:a", settings.audioBitrate, "-threads", "0">>
    \o <<outputName>>

buildCommand(inputName, outputName, settings) ==
    <<"-i", inputName, "-c:v", "libx264", "-crf", toString(settings.crf),
      "-preset", settings.preset, "-movflags", "+faststart">>
    \o (IF settings.resolution # "original"
        THEN <<"-vf", "scale=-2:" \o toString(parseInt(settings.resolution))>>
        ELSE <<>>)
    \o <<"-c:a", "aac", "-b:a", settings.audioBitrate, "-threads", "0">>
    \o <<outputName>>

\* the settings handed to buildCommand
CrfValues == {0, 18, 23, 28, 51}
SpeedValues == {"ultrafast", "fast", "medium", "slow", "veryslow"}
ResolutionValues == {"original", "1080", "720", "480", "abc"}
AudioBitrates == {"128k", "96k"}
OutputNames == {"output.mp4", "out.mkv"}

SettingsValues ==
    [crf : {Num(n) : n \in CrfValues}, preset : SpeedValues,
     resolution : ResolutionValues, audioBitrate : AudioBitrates]

InitCommand ==
    /\ ServerQuiet
    /\ env = CHOOSE e \in Environments : TRUE
    /\ BrowserQuiet
    /\ http = NoHttp
    /\ built \in [inputName : {"input.mp4"}, outputName : OutputNames,
                  settings : SettingsValues, command : {<<>>}, done : {FALSE}]

BuildCommandCall ==
    /\ ~built.done
    /\ built' = [built EXCEPT
                    !.command = buildCommand(built.inputName, built.outputName,
                                             built.settings),
                    !.done = TRUE]
    /\ UNCHANGED <<serverVars, browserVars, http>>

NextCommand == BuildCommandCall

SpecCommand == InitCommand /\ [][NextCommand]_vars

(***************************************************************************)
(* The browser application in file mode: FFmpegEngine.validateFile and the *)
(* view operations of UIController, then the handlers of                   *)
(* VideoCompressorApp.  Every await of the code is a point where the       *)
(* handler stops and another event may be handled; up to MaxPending        *)
(* handleFileSelect calls and MaxRuns startCompression calls are in flight *)
(* together.  FFmpeg (load, writeFile, exec, readFile) and the video       *)
(* element answer nondeterministically.                                    *)
(***************************************************************************)
maxSize == 1610612736
minSize == 1048576
maxDurationBrowser == 90

Valid == "<valid>"

\* validateFile: the message of the error thrown, or Valid
validateFile(file) ==
    IF file.size > maxSize THEN "File too large. Maximum size is 1.5GB."
    ELSE IF file.size < minSize THEN "File too small. Minimum size is 1MB."
    ELSE IF ~StartsWith(Chars(file.type), Chars("video/"))
    THEN "Invalid file type. Please select a video file."
    ELSE Valid

\* Math.max(0, Math.min(100, percentage)); NaN stays NaN
Clamp(x) ==
    IF x.nan THEN NaN
    ELSE IF x.n > 100 THEN Num(100)
    ELSE IF x.n < 0 THEN Num(0)
    ELSE x

updateProgress(u, percentage, statusText) ==
    LET shown == NumChars(Clamp(percentage)) \o <<"%">>
    IN  [u EXCEPT !.progressFill = shown,
                  !.progressText = shown,
                  !.statusMessage = IF statusText # "" THEN statusText ELSE @]

\* the callback handed to engine.onProgress
progressCallback(u, percentage) == updateProgress(u, percentage, "")

\* a variant that restarts the percentage on every status message
statusCallbackFromZero(u, message) == updateProgress(u, Num(0), message)

\* the callback handed to engine.onStatus
statusCallback(u, message) ==
    updateProgress(u, OrNum(parseIntChars(u.progressText), 0), message)

\* FFmpegEngine.updateStatus
updateStatus(e, u, message) ==
    IF e.callbacks THEN statusCallback(u, message) ELSE u

showSection(u, name) == [u EXCEPT !.section = name]

showFileSelected(u, file) ==
    [u EXCEPT !.currentFile = file, !.uploadZone = "none",
              !.urlInputZone = "none", !.settingsPanel = "block"]

resetToUpload(u) ==
    updateProgress([showSection(u, "upload") EXCEPT
                       !.uploadZone = "flex", !.settingsPanel = "none",
                       !.currentFile = NoFile, !.compressedBlob = FALSE],
                   Num(0), "Initializing...")

showProgress(u) == updateProgress(showSection(u, "progress"), Num(0), "Initializing...")

showResults(u) == [showSection(u, "results") EXCEPT !.compressedBlob = TRUE]

showError(u, message) == [showSection(u, "error") EXCEPT !.errorMessage = message]

\* the numbers of handleFileSelect and of startCompression calls followed
\* at a time
MaxRuns == 2

\* the files a user may choose, the URLs typed, the settings of the form and
\* the percentages Math.round(progress * 100) the engine may report
MaxPending == 2

File(bytes, mime, canRead, seconds) ==
    [present |-> TRUE, size |-> bytes, type |-> mime, readable |-> canRead,
     duration |-> seconds, url |-> Undefined]

Files ==
    {File(minSize, "video/mp4", TRUE, Num(maxDurationBrowser)),
     File(minSize, "video/mp4", TRUE, Num(maxDurationBrowser + 1)),
     File(maxSize, "video/mp4", FALSE, NaN),
     File(minSize - 1, "video/mp4", TRUE, Num(maxDurationBrowser)),
     File(maxSize + 1, "video/mp4", FALSE, NaN),
     File(minSize, "image/png", TRUE, Num(maxDurationBrowser)),
     File(maxSize, "videotape", TRUE, Num(maxDurationBrowser + 1))}

UrlInputs ==
    {"", "not a url", "https://example.com/v/big.mov?x=1",
     " https://example.com/v/big.mov?x=1 "}

FormSettings ==
    {[quality |-> Num(28), resolution |-> "720", speed |-> "fast"],
     [quality |-> NaN, resolution |-> "", speed |-> ""]}

ProgressPercentages == {-1, 57, 101}

UnsupportedBrowser ==
    "Your browser is not supported. Please use a modern browser (Chrome, Firefox, Edge, Safari)."

\* the constructor; checkBrowserCompatibility shows the error section when
\* Worker, Blob or URL is missing
InitBrowser ==
    /\ ServerQuiet
    /\ env = CHOOSE e \in Environments : TRUE
    /\ app = InitialApp
    /\ engine = InitialEngine
    /\ \E supported \in BOOLEAN :
          ui = IF supported THEN InitialUi
               ELSE showError(InitialUi, UnsupportedBrowser)
    /\ runs = EmptyBag
    /\ pending = EmptyBag
    /\ lastPick = NoFile
    /\ http = NoHttp
    /\ built = NoBuilt

\* reset()
reset ==
    /\ app' = [currentFile |-> NoFile, isProcessing |-> FALSE]
    /\ ui' = resetToUpload(ui)

\* switchUploadMode: the file and URL mode buttons
SwitchUploadMode ==
    /\ ui.section = "upload"
    /\ \E mode \in {"file", "url"} :
          ui' = IF mode = "file"
                THEN [ui EXCEPT !.uploadZone = "flex", !.urlInputZone = "none"]
                ELSE [ui EXCEPT !.uploadZone = "none", !.urlInputZone = "flex"]
    /\ lastPick' = NoFile
    /\ UNCHANGED <<app, engine, runs, pending>>
    /\ UNCHANGED <<serverVars, http, built>>

\* new URL(url) accepts a string that starts with a scheme
IsUrl(cs) ==
    LET colon == IndexOf(cs, <<":">>)
        Letters == {"a", "b", "c", "d", "e", "f", "g", "h", "i", "j", "k",
                    "l", "m", "n", "o", "p", "q", "r", "s", "t", "u", "v",
                    "w", "x", "y", "z"}
    IN  /\ colon > 1
        /\ colon < Len(cs)
        /\ \A i \in 1..(colon - 1) : cs[i] \in Letters

\* the mock file handleURLInput makes for a URL
UrlFile(url) ==
    [present |-> TRUE, size |-> 0, type |-> Undefined, readable |-> FALSE,
     duration |-> NaN, url |-> url]

\* the URL submit button: the trimmed input goes to handleURLInput unless it
\* is empty; an invalid URL is answered with an alert
SubmitUrl ==
    /\ ui.section = "upload"
    /\ ui.urlInputZone = "flex"
    /\ \E input \in UrlInputs :
          LET url == Trim(Chars(input))
          IN  IF url = <<>> \/ app.isProcessing \/ ~IsUrl(url)
              THEN UNCHANGED <<app, ui>>
              ELSE /\ app' = [app EXCEPT !.currentFile = UrlFile(Join(url))]
                   /\ ui' = showFileSelected(ui, UrlFile(Join(url)))
    /\ lastPick' = NoFile
    /\ UNCHANGED <<engine, runs, pending>>
    /\ UNCHANGED <<serverVars, http, built>>

\* handleFileSelect up to its first await: a click on the upload zone and a
\* choice in the file dialog, or a drop on the zone
SelectFile ==
    /\ ui.section = "upload"
    /\ ui.uploadZone = "flex"
    /\ \E file \in Files :
          /\ lastPick' = file
          /\ IF app.isProcessing
             THEN UNCHANGED <<app, ui, pending>>
             ELSE IF validateFile(file) # Valid
             THEN /\ ui' = showError(ui, validateFile(file))
                  /\ UNCHANGED <<app, pending>>
             ELSE /\ BagCardinality(pending) < MaxPending
                  /\ pending' = pending (+) SetToBag({file})
                  /\ UNCHANGED <<app, ui>>
    /\ UNCHANGED <<engine, runs>>
    /\ UNCHANGED <<serverVars, http, built>>

\* handleFileSelect after getVideoDuration resolved
SelectDurationResolved ==
    /\ \E file \in BagToSet(pending) :
          /\ file.readable
          /\ pending' = pending (-) SetToBag({file})
          /\ IF GreaterThan(file.duration, maxDurationBrowser)
             THEN UNCHANGED <<app, ui>>
             ELSE /\ app' = [app EXCEPT !.currentFile = file]
                  /\ ui' = showFileSelected(ui, file)
    /\ lastPick' = NoFile
    /\ UNCHANGED <<engine, runs>>
    /\ UNCHANGED <<serverVars, http, built>>

\* handleFileSelect after getVideoDuration rejected: continue anyway
SelectDurationRejected ==
    /\ \E file \in BagToSet(pending) :
          /\ ~file.readable
          /\ pending' = pending (-) SetToBag({file})
          /\ app' = [app EXCEPT !.currentFile = file]
          /\ ui' = showFileSelected(ui, file)
    /\ lastPick' = NoFile
    /\ UNCHANGED <<engine, runs>>
    /\ UNCHANGED <<serverVars, http, built>>

\* a startCompression call: where it waits, the file whose duration it
\* reads, the settings of compress until the command is built, and whether
\* a cancellation was confirmed while it was compressing
Run(stage, file, settings, cancelConfirmed) ==
    [stage |-> stage, file |-> file, settings |-> settings,
     cancelConfirmed |-> cancelConfirmed]

\* the call r goes on as the call next; it ends
Continue(r, next) == runs' = (runs (-) SetToBag({r})) (+) SetToBag({next})

End(r) == runs' = runs (-) SetToBag({r})

Waiting(stage) == {r \in BagToSet(runs) : r.stage = stage}

\* startCompression from this.isProcessing = true up to the first await of
\* engine.compress, for a call that is the call r (r is in runs) or a new
\* one (r is not); without a current file the read of its size throws
\* before the try block
Begin(r) ==
    /\ app' = [app EXCEPT !.isProcessing = TRUE]
    /\ IF ~app.currentFile.present
       THEN /\ End(r)
            /\ UNCHANGED <<engine, ui>>
       ELSE \E form \in FormSettings :
              LET settings == [crf |-> OrNum(form.quality, 23),
                               preset |-> OrStr(form.speed, "medium"),
                               resolution |-> OrStr(form.resolution, "original"),
                               audioBitrate |-> "128k"]
                  listening == [engine EXCEPT !.callbacks = TRUE]
              IN  IF ~engine.loaded
                  THEN /\ engine' = listening
                       /\ ui' = showProgress(ui)
                       /\ Continue(r, Run("loading", NoFile, settings, FALSE))
                  ELSE /\ engine' = [listening EXCEPT !.cancelled = FALSE]
                       /\ ui' = updateStatus(listening, showProgress(ui),
                                             "Loading video...")
                       /\ Continue(r, Run("writing", NoFile, settings, FALSE))

\* startCompression up to its first await; for the mock file of a URL
\* getVideoDuration rejects in the same turn
StartCompression ==
    /\ ui.section = "upload"
    /\ ui.settingsPanel = "block"
    /\ app.currentFile.present
    /\ ~app.isProcessing
    /\ BagCardinality(runs) < MaxRuns
    /\ IF app.currentFile.url # Undefined
       THEN Begin(Run("clicked", app.currentFile, NoSettings, FALSE))
       ELSE /\ runs' = runs (+) SetToBag({Run("checking", app.currentFile,
                                               NoSettings, FALSE)})
            /\ UNCHANGED <<app, engine, ui>>
    /\ lastPick' = NoFile
    /\ UNCHANGED pending
    /\ UNCHANGED <<serverVars, http, built>>

\* startCompression after the duration double-check
StartDurationChecked ==
    /\ \E r \in Waiting("checking") :
          IF r.file.readable /\ GreaterThan(r.file.duration, maxDurationBrowser)
          THEN /\ End(r)
               /\ UNCHANGED <<app, engine, ui>>
          ELSE Begin(r)
    /\ lastPick' = NoFile
    /\ UNCHANGED pending
    /\ UNCHANGED <<serverVars, http, built>>

\* initialize() after ffmpeg.load resolved, then compress up to writeFile
FFmpegLoaded ==
    /\ \E r \in Waiting("loading") :
          Continue(r, [r EXCEPT !.stage = "writing"])
    /\ engine' = [engine EXCEPT !.loaded = TRUE, !.cancelled = FALSE]
    /\ \E loadedMessage \in {"Multi-threaded FFmpeg loaded (2x faster)",
                             "Single-threaded FFmpeg loaded"} :
          ui' = updateStatus(engine,
                    updateStatus(engine,
                        updateStatus(engine, ui, loadedMessage),
                        "Ready to compress"),
                    "Loading video...")
    /\ lastPick' = NoFile
    /\ UNCHANGED <<app, pending>>
    /\ UNCHANGED <<serverVars, http, built>>

\* the end of startCompression by an error other than the cancellation
Fail(r, message) ==
    /\ ui' = showError(ui, message)
    /\ app' = [app EXCEPT !.isProcessing = FALSE]
    /\ End(r)

\* ffmpeg.load rejected
FFmpegLoadFailed ==
    /\ \E r \in Waiting("loading") :
          Fail(r, "Failed to initialize FFmpeg. Please check your internet connection and try again.")
    /\ lastPick' = NoFile
    /\ UNCHANGED <<engine, pending>>
    /\ UNCHANGED <<serverVars, http, built>>

\* compress after writeFile resolved; the command is built from the settings
\* and handed to exec
WriteDone ==
    /\ \E r \in Waiting("writing") :
          IF engine.cancelled
          THEN /\ Continue(r, [r EXCEPT !.stage = "aborting", !.settings = NoSettings])
               /\ UNCHANGED ui
          ELSE /\ buildCommand("input.mp4", "output.mp4", r.settings) # <<>>
               /\ Continue(r, [r EXCEPT !.stage = "executing", !.settings = NoSettings])
               /\ ui' = updateStatus(engine, ui, "Compressing video...")
    /\ lastPick' = NoFile
    /\ UNCHANGED <<app, engine, pending>>
    /\ UNCHANGED <<serverVars, http, built>>

\* the 'progress' event of ffmpeg during exec
ProgressEvent ==
    /\ Waiting("executing") # {}
    /\ \E percentage \in ProgressPercentages :
          ui' = IF engine.callbacks THEN progressCallback(ui, Num(percentage))
                ELSE ui
    /\ lastPick' = NoFile
    /\ UNCHANGED <<app, engine, runs, pending>>
    /\ UNCHANGED <<serverVars, http, built>>

\* compress after exec resolved
ExecDone ==
    /\ \E r \in Waiting("executing") :
          IF engine.cancelled
          THEN /\ Continue(r, [r EXCEPT !.stage = "aborting"])
               /\ UNCHANGED ui
          ELSE /\ Continue(r, [r EXCEPT !.stage = "reading"])
               /\ ui' = updateStatus(engine, ui, "Finalizing...")
    /\ lastPick' = NoFile
    /\ UNCHANGED <<app, engine, pending>>
    /\ UNCHANGED <<serverVars, http, built>>

\* compress after readFile resolved
ReadDone ==
    /\ \E r \in Waiting("reading") : Continue(r, [r EXCEPT !.stage = "cleaning"])
    /\ lastPick' = NoFile
    /\ UNCHANGED <<app, engine, ui, pending>>
    /\ UNCHANGED <<serverVars, http, built>>

\* compress after the final cleanup: the blob is returned and startCompression
\* shows the results
CleanupDone ==
    /\ \E r \in Waiting("cleaning") : End(r)
    /\ ui' = showResults(updateStatus(engine, ui, "Complete!"))
    /\ app' = [app EXCEPT !.isProcessing = FALSE]
    /\ lastPick' = NoFile
    /\ UNCHANGED <<engine, pending>>
    /\ UNCHANGED <<serverVars, http, built>>

\* writeFile, exec or readFile rejected: compress wraps the message of the
\* error, startCompression shows it
StepFailed ==
    /\ \E r \in Waiting("writing") \cup Waiting("executing") \cup Waiting("reading") :
          \E message \in {"boom", ""} :
              Fail(r, "Compression failed: " \o message)
    /\ lastPick' = NoFile
    /\ UNCHANGED <<engine, pending>>
    /\ UNCHANGED <<serverVars, http, built>>

\* compress after the cleanup of a cancelled run: 'Compression cancelled' is
\* thrown and startCompression resets the app
AbortCleanupDone ==
    /\ \E r \in Waiting("aborting") : End(r)
    /\ reset
    /\ lastPick' = NoFile
    /\ UNCHANGED <<engine, pending>>
    /\ UNCHANGED <<serverVars, http, built>>

\* cancelCompression with the confirm dialog accepted; the calls past their
\* duration check are the compressions in progress
CancelCompression ==
    /\ ui.section = "progress"
    /\ app.isProcessing
    /\ engine' = [engine EXCEPT !.cancelled = TRUE]
    /\ ui' = updateStatus(engine, ui, "Cancelling...")
    /\ app' = [app EXCEPT !.isProcessing = FALSE]
    /\ LET Cancelled(r) == IF r.stage = "checking" THEN r
                           ELSE [r EXCEPT !.cancelConfirmed = TRUE]
       IN  runs' = [x \in {Cancelled(r) : r \in BagToSet(runs)} |->
                       CopiesIn(x, runs)
                       + IF x.cancelConfirmed
                         THEN CopiesIn([x EXCEPT !.cancelConfirmed = FALSE], runs)
                         ELSE 0]
    /\ lastPick' = NoFile
    /\ UNCHANGED pending
    /\ UNCHANGED <<serverVars, http, built>>

\* the 'compress another' and 'try again' buttons
ResetClick ==
    /\ ui.section \in {"results", "error"}
    /\ reset
    /\ lastPick' = NoFile
    /\ UNCHANGED <<engine, runs, pending>>
    /\ UNCHANGED <<serverVars, http, built>>

NextBrowser ==
    \/ SwitchUploadMode
    \/ SubmitUrl
    \/ SelectFile
    \/ SelectDurationResolved
    \/ SelectDurationRejected
    \/ StartCompression
    \/ StartDurationChecked
    \/ FFmpegLoaded
    \/ FFmpegLoadFailed
    \/ WriteDone
    \/ ProgressEvent
    \/ ExecDone
    \/ ReadDone
    \/ CleanupDone
    \/ StepFailed
    \/ AbortCleanupDone
    \/ CancelCompression
    \/ ResetClick

SpecBrowser == InitBrowser /\ [][NextBrowser]_vars

(***************************************************************************)
(* The dev server: one request passing the middleware in the order of the  *)
(* app.use calls.  http.at is the position in the chain; a middleware      *)
(* either answers (responder is set) or calls next().                      *)
(***************************************************************************)
\* a variant that registers the header middleware ahead of the API router
MiddlewareHeadersFirst == <<"json", "headers", "api", "static", "modules">>

Middleware == <<"json", "api", "headers", "static", "modules">>

Methods == {"GET", "HEAD", "POST"}
ApiPaths == {"/api/compress", "/api/info", "/api/health", "/api/other"}
ModulePaths == {"/node_modules/@ffmpeg/ffmpeg/dist/esm/index.js"}
Paths == ApiPaths \cup ModulePaths \cup {"/", "/index.html", "/js/main.js", "/missing.css"}
Bodies == {"none", "json", "malformed"}

CrossOriginHeaders ==
    {<<"Cross-Origin-Embedder-Policy", "require-corp">>,
     <<"Cross-Origin-Opener-Policy", "same-origin">>,
     <<"Cross-Origin-Resource-Policy", "cross-origin">>}

\* the route of the API router a request matches; a HEAD request is handled
\* by the GET route
Route(method, path) ==
    CASE path = "/api/compress" /\ method = "POST" -> "compress"
      [] path = "/api/info" /\ method \in {"GET", "HEAD"} -> "info"
      [] path = "/api/health" /\ method \in {"GET", "HEAD"} -> "health"
      [] OTHER -> "none"

InChain(name) ==
    /\ http.responder = "none"
    /\ http.at \in 1..Len(Middleware)
    /\ Middleware[http.at] = name

Answer(responder, status) ==
    http' = [http EXCEPT !.responder = responder, !.status = status]

CallNext == http' = [http EXCEPT !.at = http.at + 1]

InitRouting ==
    /\ ServerQuiet
    /\ env = CHOOSE e \in Environments : TRUE
    /\ BrowserQuiet
    /\ http = NoHttp
    /\ built = NoBuilt

RequestArrives ==
    /\ http.at = 0
    /\ \E m \in Methods, p \in Paths, d \in BOOLEAN, b \in Bodies :
          http' = [http EXCEPT !.at = 1, !.method = m, !.path = p,
                               !.onDisk = d, !.body = b]
    /\ UNCHANGED <<serverVars, browserVars, built>>

\* express.json(): a malformed JSON body goes to the error handler
JsonParser ==
    /\ InChain("json")
    /\ IF http.body = "malformed" THEN Answer("error", 400) ELSE CallNext
    /\ UNCHANGED <<serverVars, browserVars, built>>

\* app.use('/api', apiRoutes): a matching route answers, the compress route
\* with any of its outcomes or through the error handler when multer fails
ApiRouter ==
    /\ InChain("api")
    /\ LET route == Route(http.method, http.path)
       IN  CASE route = "compress" ->
                  \/ \E st \in {200, 400, 500} : Answer("compress", st)
                  \/ Answer("error", 500)
             [] route \in {"info", "health"} -> Answer(route, 200)
             [] OTHER -> CallNext
    /\ UNCHANGED <<serverVars, browserVars, built>>

HeaderMiddleware ==
    /\ InChain("headers")
    /\ http' = [http EXCEPT !.headers = http.headers \cup CrossOriginHeaders,
                            !.at = http.at + 1]
    /\ UNCHANGED <<serverVars, browserVars, built>>

\* express.static(__dirname): serves GET and HEAD of files on disk
StaticRoot ==
    /\ InChain("static")
    /\ IF http.method \in {"GET", "HEAD"} /\ http.onDisk
       THEN Answer("static", 200)
       ELSE CallNext
    /\ UNCHANGED <<serverVars, browserVars, built>>

\* app.use('/node_modules', express.static(...))
StaticNodeModules ==
    /\ InChain("modules")
    /\ IF http.path \in ModulePaths /\ http.method \in {"GET", "HEAD"} /\ http.onDisk
       THEN Answer("static", 200)
       ELSE CallNext
    /\ UNCHANGED <<serverVars, browserVars, built>>

\* nothing answered: the 404 of the final handler
FinalHandler ==
    /\ http.responder = "none"
    /\ http.at = Len(Middleware) + 1
    /\ Answer("final", 404)
    /\ UNCHANGED <<serverVars, browserVars, built>>

NextRouting ==
    \/ RequestArrives
    \/ JsonParser
    \/ ApiRouter
    \/ HeaderMiddleware
    \/ StaticRoot
    \/ StaticNodeModules
    \/ FinalHandler

SpecRouting == InitRouting /\ [][NextRouting]_vars

(***************************************************************************)
(* A direct call of the exported uploadCompressedVideo, under every way    *)
(* the Bunny variables can be set.                                         *)
(***************************************************************************)
InitUpload ==
    /\ ServerQuiet
    /\ env \in AllEnvironments
    /\ BrowserQuiet
    /\ http = NoHttp
    /\ built = NoBuilt

\* the caller invokes uploadCompressedVideo(filePath, name, folder)
CallUpload ==
    /\ pc = "idle"
    /\ cdn.state = "notcalled"
    /\ cdn' = [cdn EXCEPT !.state = "running"]
    /\ pc' = "calling"
    /\ UNCHANGED <<env, req, inputPath, duration, probed, encoder, res, files>>
    /\ UNCHANGED <<browserVars, http, built>>

\* the promise settles
UploadReturns ==
    /\ pc = "calling"
    /\ \E networkOk \in BOOLEAN : cdn' = uploadCompressedVideo(env, networkOk)
    /\ pc' = "returned"
    /\ UNCHANGED <<env, req, inputPath, duration, probed, encoder, res, files>>
    /\ UNCHANGED <<browserVars, http, built>>

NextUpload ==
    \/ CallUpload
    \/ UploadReturns

SpecUpload == InitUpload /\ [][NextUpload]_vars

TypeOK ==
    /\ pc \in {"idle", "downloading", "probing", "encoding", "uploading",
               "timer", "sending", "done"}
    /\ env \in Environments
    /\ req \in Requests \cup {NoRequest}
    /\ inputPath \in {Undefined, "upload", "download"}
    /\ probed \in {"no", "resolved", "rejected"}
    /\ encoder.state \in {"idle", "running", "ended", "failed"}
    /\ cdn.state \in {"notcalled", "running", "resolved", "rejected"}
    /\ res.status \in {0, 200, 400, 500}
    /\ files \subseteq {"upload", "download", OutputFile}

(***************************************************************************)
(* Properties of POST /api/compress.                                       *)
(***************************************************************************)
Answered == res.kind # "none"
TempFiles == {inputPath, OutputFile}

\* C1: the steps of a compress request happen in the order acquisition,
\* duration probe, validation, encoder start, CDN upload, cleanup: the probe
\* runs on an acquired input; the encoder is started only after the probe
\* resolved and with a quality and a preset that pass the checks; the CDN
\* upload is called only after the encoder ended; and the temp files of a
\* successfully encoded request stay on disk until the upload has settled
\* and the answer is out.
StepOrder ==
    /\ probed # "no" => inputPath # Undefined
    /\ encoder.state # "idle" =>
          /\ probed = "resolved"
          /\ ~encoder.crf.nan
          /\ encoder.crf.n \in MinQuality..MaxQuality
          /\ encoder.preset \in {"fast", "medium", "slow"}
    /\ cdn.state # "notcalled" => encoder.state = "ended"
    /\ encoder.state = "ended" /\ pc \in {"uploading", "timer", "sending"} =>
          TempFiles \subseteq files
    /\ encoder.state = "ended" /\ ~(TempFiles \subseteq files) =>
          /\ cdn.state # "running"
          /\ Answered

\* a successfully encoded request whose upload succeeded has been cleaned up
StepOrderWitness ==
    /\ pc = "done"
    /\ encoder.state = "ended"
    /\ cdn.state = "resolved"
    /\ TempFiles \cap files = {}

\* C2: a request with neither a url nor an uploaded file is answered with
\* 400 {success: false, error: 'No video file or URL provided'}, and no
\* probe, encoder or CDN upload is ever started for it.
NoInputRejected ==
    pc # "idle" /\ ~Truthy(req.url) /\ req.file = Undefined =>
        /\ res = ErrorJson(400, "No video file or URL provided")
        /\ probed = "no"
        /\ encoder.state = "idle"
        /\ cdn.state = "notcalled"
        /\ pc = "done"

NoInputRejectedWitness ==
    /\ pc = "done"
    /\ req.url = Undefined
    /\ req.file = Undefined
    /\ req.quality = "18"
    /\ res.status = 400

\* C3: a request that supplies only the input, quality, resolution and
\* preset (no uploadToCdn, no format, no Accept: application/json) and whose
\* encode succeeds is answered with the compressed file, not with JSON.
PlainRequestGetsFile ==
    /\ req.quality \in {"18", "28"}
    /\ req.resolution \in {"original", "1080", "720"}
    /\ req.preset \in {"fast", "medium", "slow"}
    /\ req.uploadToCdn = Undefined
    /\ req.format = Undefined /\ req.queryFormat = Undefined
    /\ ~AcceptsJson(req.accept)
    /\ encoder.state = "ended"
    /\ Answered
    => res.kind = "file"

\* C4: the encoder is started only after the probe reported a numeric
\* duration of at most 90 seconds; when the duration exceeds 90 seconds or
\* the probe fails the answer is 400, the input temp file is deleted and the
\* encoder is never started.
DurationGate ==
    /\ encoder.state # "idle" =>
          /\ probed = "resolved"
          /\ ~duration.nan
          /\ duration.n <= maxDuration
    /\ probed = "rejected" \/ (probed = "resolved" /\ ~duration.nan /\ duration.n > maxDuration) =>
          /\ res.status = 400
          /\ inputPath \notin files
          /\ encoder.state = "idle"

\* C5: a request that passed the duration check and whose quality parses to
\* an integer outside 18..28, or whose preset is none of fast, medium, slow,
\* is answered with 400 and {success: false, error: <validation message>}.
InvalidSettingsGet400 ==
    /\ pc = "done"
    /\ probed = "resolved" /\ ~DurationTooLong(duration)
    /\ \/ /\ ~parseInt(req.quality).nan
          /\ parseInt(req.quality).n \notin MinQuality..MaxQuality
       \/ /\ req.preset # Undefined
          /\ req.preset \notin {"fast", "medium", "slow"}
    => \/ res = ErrorJson(400, "Quality (CRF) must be between 18 and 28")
       \/ res = ErrorJson(400, "Preset must be fast, medium, or slow")

\* C6: the encoder is never started for a request that supplies a quality
\* whose integer value lies outside 18..28, and when it is started its CRF
\* is the supplied quality, or 23 when quality is omitted.
QualityRange ==
    encoder.state # "idle" =>
        IF req.quality = Undefined THEN encoder.crf = Num(DefaultQuality)
        ELSE /\ encoder.crf = parseInt(req.quality)
             /\ ~encoder.crf.nan
             /\ encoder.crf.n \in MinQuality..MaxQuality

\* C7: the encoder is started only with a target resolution that is one of
\* original, 1080, 720 (original when omitted), and scaling is applied
\* exactly when the resolution is not original.
ResolutionOptions ==
    encoder.state # "idle" =>
        /\ encoder.resolution \in {"original", "1080", "720"}
        /\ req.resolution = Undefined => encoder.resolution = "original"
        /\ encoder.scaled <=> encoder.resolution # "original"

\* C8: if the encoder ends and the CDN upload throws (also for lack of
\* credentials), the request is still answered with success, a file
\* download or JSON with success: true and no bunnyCdn field, never with an
\* error status.
CdnFailureStillSucceeds ==
    encoder.state = "ended" /\ cdn.state = "rejected" =>
        /\ res.status = 200
        /\ res.success
        /\ res.kind \in {"file", "json"}
        /\ ~res.bunnyCdn.present

\* the upload threw for lack of credentials and the file was sent
CdnFailureWitness ==
    /\ cdn.state = "rejected"
    /\ cdn.service = "none"
    /\ res.kind = "file"
    /\ pc = "done"

\* C9: whenever the CDN upload succeeds the answer is JSON, whatever the
\* Accept header or format, and carries bunnyCdn.cdnUrl equal to the URL the
\* uploader returned (cdnUrl for Storage, videoUrl for Stream) with its
\* method; bunnyCdn is absent whenever the upload was skipped or failed.
CdnResultInResponse ==
    /\ cdn.state = "resolved" =>
          /\ res.kind = "json" /\ res.status = 200
          /\ res.bunnyCdn.present
          /\ res.bunnyCdn.cdnUrl # Undefined
          /\ res.bunnyCdn.cdnUrl =
                IF cdn.result.method = "storage" THEN cdn.result.cdnUrl
                ELSE cdn.result.videoUrl
          /\ res.bunnyCdn.method = cdn.result.method
    /\ cdn.state # "resolved" => ~res.bunnyCdn.present

\* a Stream upload succeeded for a client that did not ask for JSON
CdnResultWitness ==
    /\ cdn.state = "resolved"
    /\ cdn.result.method = "stream"
    /\ ~AcceptsJson(req.accept)
    /\ req.queryFormat = Undefined
    /\ req.format = "file"
    /\ res.bunnyCdn.cdnUrl = "https://vz-12345.b-cdn.net/<guid>/play_720p.mp4"

\* C10: a successful request with the body parameter format = json is
\* answered with the JSON document, also when no CDN upload succeeded; with
\* format = file or omitted and no CDN result it is answered with the file.
FormatParameter ==
    /\ encoder.state = "ended" /\ Answered
    /\ req.quality \in {Undefined, "18", "28"}
    /\ req.resolution \in {Undefined, "original", "1080", "720"}
    =>
        /\ req.format = "json" => res.kind = "json"
        /\ /\ req.format \in {"file", Undefined}
           /\ req.queryFormat = Undefined /\ ~AcceptsJson(req.accept)
           /\ cdn.state # "resolved"
           => res.kind = "file"

\* C11: the CDN push is optional per request: after a successful encode
\* uploadCompressedVideo is called unless uploadToCdn is the string 'false'
\* or the boolean false, for those two it is never called, and it is called
\* at most once.
UploadOptional ==
    /\ [](/\ encoder.state = "ended" /\ req.uploadToCdn \notin {"false", BoolFalse}
             => cdn.state # "notcalled"
          /\ req.uploadToCdn \in {"false", BoolFalse} => cdn.state = "notcalled"
          /\ encoder.state # "ended" => cdn.state = "notcalled")
    /\ [][/\ cdn'.state = "running" /\ cdn.state # "running" => cdn.state = "notcalled"
          /\ cdn.state # "notcalled" => cdn'.state # "notcalled"]_vars

\* a request with the boolean false was encoded and answered without upload
UploadOptionalWitness ==
    /\ pc = "done"
    /\ encoder.state = "ended"
    /\ req.uploadToCdn = BoolFalse
    /\ cdn.state = "notcalled"
    /\ res.kind = "file"

\* C12: whatever the outcome of a compress request, once the response and
\* any deferred cleanup have run, neither its input temp file (uploaded or
\* downloaded) nor its output temp file remains in the uploads directory.
TempFilesRemoved ==
    pc = "done" => files = {}

\* C13: uploadCompressedVideo uploads through Storage whenever both Storage
\* variables are set (also when Stream is configured too), through Stream
\* only when Storage is not fully configured and both Stream variables are
\* set, and with neither pair set it throws without any network request;
\* one call never uses both services: the result carries the fields of the
\* one service it names.
ServiceChoice ==
    pc = "returned" =>
        LET storage == /\ env.BUNNY_STORAGE_ZONE_NAME # Undefined
                       /\ env.BUNNY_STORAGE_ZONE_PASSWORD # Undefined
            stream == /\ env.BUNNY_STREAM_API_KEY # Undefined
                      /\ env.BUNNY_STREAM_LIBRARY_ID # Undefined
        IN  /\ storage => cdn.service = "storage"
            /\ ~storage /\ stream => cdn.service = "stream"
            /\ ~storage /\ ~stream =>
                  cdn.service = "none" /\ cdn.state = "rejected"
            /\ cdn.state = "resolved" =>
                  /\ cdn.result.method = cdn.service
                  /\ cdn.service = "storage" =>
                        cdn.result.cdnUrl # Undefined /\ cdn.result.videoUrl = Undefined
                  /\ cdn.service = "stream" =>
                        cdn.result.videoUrl # Undefined /\ cdn.result.cdnUrl = Undefined

\* both services are configured and the call went through Storage
ServiceChoiceWitness ==
    /\ pc = "returned"
    /\ env.BUNNY_STORAGE_ZONE_NAME = "zoneX"
    /\ env.BUNNY_STORAGE_ZONE_PASSWORD = "pw"
    /\ env.BUNNY_STREAM_API_KEY = "key"
    /\ env.BUNNY_STREAM_LIBRARY_ID = "12345"
    /\ cdn.state = "resolved"
    /\ cdn.service = "storage"

\* C17: buildCommand with the default settings yields exactly the argument
\* list of the README; for every settings value the list holds '-vf' followed
\* by 'scale=-2:<height>' exactly when the resolution is not 'original'; and
\* the output name is always the last argument.
CommandShape ==
    built.done =>
        LET c == built.command
            st == built.settings
            vf == {i \in 1..Len(c) : c[i] = "-vf"}
        IN  /\ /\ st = [crf |-> Num(23), preset |-> "medium",
                        resolution |-> "original", audioBitrate |-> "128k"]
               /\ built.outputName = "output.mp4"
               => c = <<"-i", "input.mp4", "-c:v", "libx264", "-crf", "23",
                        "-preset", "medium", "-movflags", "+faststart",
                        "-c:a", "aac", "-b:a", "128k", "-threads", "0",
                        "output.mp4">>
            /\ st.resolution = "original" => vf = {}
            /\ st.resolution # "original" =>
                  /\ Cardinality(vf) = 1
                  /\ \A i \in vf : i < Len(c) - 1
            /\ \A i \in vf :
                  /\ st.resolution = "1080" => c[i + 1] = "scale=-2:1080"
                  /\ st.resolution = "720" => c[i + 1] = "scale=-2:720"
                  /\ st.resolution = "480" => c[i + 1] = "scale=-2:480"
            /\ \A i \in 1..Len(c) :
                  c[i] \in {"scale=-2:1080", "scale=-2:720", "scale=-2:480"}
                  => i - 1 \in vf
            /\ Len(c) > 0
            /\ c[Len(c)] = built.outputName

\* a command built for a 720p target with a non-default output name
CommandShapeWitness ==
    /\ built.done
    /\ built.settings.resolution = "720"
    /\ built.settings.crf = Num(28)
    /\ built.outputName = "out.mkv"
    /\ Len(built.command) = 19

\* C16: every response produced by a static file handler carries
\* Cross-Origin-Embedder-Policy: require-corp and Cross-Origin-Opener-Policy:
\* same-origin, and no response produced by the /api/compress, /api/info or
\* /api/health handler carries either header.
HeadersOnStaticOnly ==
    /\ http.responder = "static" =>
          /\ <<"Cross-Origin-Embedder-Policy", "require-corp">> \in http.headers
          /\ <<"Cross-Origin-Opener-Policy", "same-origin">> \in http.headers
    /\ http.responder \in {"compress", "info", "health"} =>
          \A h \in http.headers :
              h[1] \notin {"Cross-Origin-Embedder-Policy",
                           "Cross-Origin-Opener-Policy"}

\* the health route has answered a GET
HeadersOnStaticOnlyWitness ==
    /\ http.responder = "health"
    /\ http.method = "GET"
    /\ http.status = 200
    /\ http.headers = {}

\* C14: once the user has confirmed the cancellation of a compression in
\* progress, at any point between the start click and the display of the
\* results, FFmpeg still loading included, that compression never reaches
\* the results section.
CancelledNeverShowsResults ==
    [][\A r \in BagToSet(runs) :
          /\ r.cancelConfirmed
          /\ r.stage = "cleaning"
          /\ CopiesIn(r, runs') < CopiesIn(r, runs)
          => ui'.section # "results"]_vars

\* C15: a chosen file becomes the current file only if its size is between
\* 1 MB and 1.5 GB inclusive, its type starts with 'video/' and its duration,
\* when readable, is at most 90 seconds; a file failing the size or type
\* check shows the error section; a rejected file leaves currentFile as it
\* was.
Acceptable(file) ==
    /\ file.size >= 1048576
    /\ file.size <= 1610612736
    /\ file.type = "video/mp4"
    /\ file.readable => file.duration.n <= 90

OnlyValidFilesAccepted ==
    [][/\ app'.currentFile # app.currentFile =>
             IF app'.currentFile.present
             THEN \/ app'.currentFile.url # Undefined
                  \/ /\ Acceptable(app'.currentFile)
                     /\ BagIn(app'.currentFile, pending)
             ELSE ~lastPick'.present /\ pending' = pending
       /\ /\ lastPick'.present
          /\ \/ lastPick'.size < 1048576
             \/ lastPick'.size > 1610612736
             \/ lastPick'.type # "video/mp4"
          => /\ ui'.section = "error"
             /\ app'.currentFile = app.currentFile
             /\ pending' = pending
       /\ \A file \in BagToSet(pending) :
             /\ CopiesIn(file, pending') < CopiesIn(file, pending)
             /\ ~Acceptable(file)
             => app'.currentFile = app.currentFile
      ]_vars

\* C18: a status message of the engine changes the status text only, the
\* percentage of the progress bar and of the progress text after it is the
\* one shown before it; and the percentage shown is always within 0..100,
\* whatever integer the engine reports.
ShownPercentages == {NumChars(Num(n)) \o <<"%">> : n \in 0..100}

\* the steps in which the view itself restarts the progress display:
\* showProgress when a compression begins, resetToUpload on a reset
RunBegins ==
    \E r \in BagToSet(runs') :
        /\ r.stage \in {"loading", "writing"}
        /\ r.settings # NoSettings
        /\ CopiesIn(r, runs') > CopiesIn(r, runs)
        /\ \A q \in Waiting("loading") :
              CopiesIn(q, runs') >= CopiesIn(q, runs)

ResetStep ==
    \/ \E r \in Waiting("aborting") : CopiesIn(r, runs') < CopiesIn(r, runs)
    \/ ui.section \in {"results", "error"} /\ ui'.section = "upload"

ChannelsSeparate ==
    /\ [](ui.progressText \in ShownPercentages /\ ui.progressFill \in ShownPercentages)
    /\ [][/\ ui'.statusMessage # ui.statusMessage
          /\ ~RunBegins
          /\ ~ResetStep
          => /\ ui'.progressText = ui.progressText
             /\ ui'.progressFill = ui.progressFill]_vars

\* the engine reported 57 percent, then the status 'Finalizing...'
ChannelsSeparateWitness ==
    /\ ui.section = "progress"
    /\ ui.statusMessage = "Finalizing..."
    /\ ui.progressText = <<"5", "7", "%">>
    /\ ui.progressFill = <<"5", "7", "%">>

====
